---- MODULE Spec2Model ----
(***************************************************************************)
(* Zone temperature voting server: MemStorage (zones, votes, temperature   *)
(* history, active connections), its two interval timers and the HTTP      *)
(* handlers of registerRoutes.                                              *)
(*                                                                         *)
(* Time is counted in whole minutes since the epoch (UTC).  Temperatures   *)
(* are counted in tenths of a degree, so 22.3 is 223.                       *)
(***************************************************************************)
EXTENDS Integers, Sequences, FiniteSets, TLC

VARIABLES
  now,                 \* the wall clock, Date.now()
  zones,               \* MemStorage.zones
  votes,               \* MemStorage.votes, in insertion order
  temperatureHistory,  \* MemStorage.temperatureHistory, in insertion order
  activeConnections,   \* MemStorage.activeConnections, in insertion order
  uuids,               \* randomUUID() values drawn so far
  nextCapture,         \* when the temperature history interval next comes due
  nextCleanup,         \* when the connection cleanup interval next comes due
  req,                 \* the local variables of each running POST /api/vote handler
  res,                 \* the response sent by the step just taken, if any
  accepted,            \* history: POST /api/vote requests that passed parse and getZone
  ticks                \* history: runs of the temperature history interval callback

vars == <<now, zones, votes, temperatureHistory, activeConnections,
          uuids, nextCapture, nextCleanup, req, res, accepted, ticks>>

(***************************************************************************)
(* Bounds of the model                                                     *)
(***************************************************************************)
\* minutes of wall-clock time explored after construction
MaxTime == 11
\* votes accepted, in the whole server and while two handlers may overlap
MaxVotes == 2
\* votes accepted in the vote pipeline alone, one request at a time
MaxBurst == 3
\* randomUUID() calls explored for connection ids and generated session ids
MaxUuids == 2
\* minutes of a long quiet stretch, close to an hour
QuietMinutes == 50
\* offset of the server's local time zone from UTC, in minutes
TzOffset == 0

\* the instant the MemStorage singleton is constructed (09:54 UTC of day 0)
StartTime == (9 * 60) + 54

(***************************************************************************)
(* Program constants                                                       *)
(***************************************************************************)
VoteWindowMinutes == 10
BaseTemperature == 220
CleanupMinutes == 5
CleanupPeriod == 5
CapturePeriod == 10
IntervalMinutes == 10
IntervalsPerHour == 6
DefaultHours == 6

(***************************************************************************)
(* Inputs                                                                  *)
(***************************************************************************)
Missing == "undefined"

Slots == {"r1", "r2"}

\* x-session-id header values; Missing stands for a request without the header
SessionInputs == {"s1", Missing}

\* request bodies of POST /api/vote: votes for the seeded zones, a vote for a
\* zone that does not exist, a vote type outside the enum, and two bodies
\* lacking a field
VoteBodies ==
  [zoneId : {"zone-a", "zone-b"}, voteType : {"hot", "cold"}]
    \cup {[zoneId |-> "attic", voteType |-> "hot"],
          [zoneId |-> "zone-a", voteType |-> "warm"],
          [zoneId |-> "attic", voteType |-> "warm"],
          [zoneId |-> Missing, voteType |-> "hot"],
          [zoneId |-> "zone-a", voteType |-> Missing]}

\* zone ids of GET /api/zones/:id and GET /api/zones/:id/vote-history
PathInputs == {"zone-a", "attic"}

\* String(undefined), which parseInt sees when the query has no hours parameter
Undefined == <<"u", "n", "d", "e", "f", "i", "n", "e", "d">>

\* ?hours= query strings, as sequences of characters
HoursInputs == {Undefined, <<"1">>, <<"2">>, <<"0">>, <<"-", "1">>, <<"1", "h">>}

(***************************************************************************)
(* Sequence helpers                                                        *)
(***************************************************************************)
RECURSIVE FilterSeq(_, _)
FilterSeq(s, keep) ==
  IF s = <<>> THEN <<>>
  ELSE IF s[1] \in keep THEN <<s[1]>> \o FilterSeq(Tail(s), keep)
       ELSE FilterSeq(Tail(s), keep)

SelectIdx(s, Test(_)) == {i \in 1..Len(s) : Test(s[i])}

(***************************************************************************)
(* MemStorage                                                              *)
(***************************************************************************)
ZoneOrder == <<"standing", "zone-a", "zone-b", "zone-c", "recharge">>

ZoneIds == {ZoneOrder[i] : i \in 1..Len(ZoneOrder)}

DefaultZone(id) ==
  CASE id = "standing" -> [id |-> id, name |-> "1F Standing Area", temperature |-> 223,
                           hotVotes |-> 0, coldVotes |-> 0, activeVoters |-> 0]
    [] id = "zone-a"   -> [id |-> id, name |-> "1F Zone A", temperature |-> 218,
                           hotVotes |-> 0, coldVotes |-> 0, activeVoters |-> 0]
    [] id = "zone-b"   -> [id |-> id, name |-> "1F Zone B", temperature |-> 227,
                           hotVotes |-> 0, coldVotes |-> 0, activeVoters |-> 0]
    [] id = "zone-c"   -> [id |-> id, name |-> "2F Zone C", temperature |-> 215,
                           hotVotes |-> 0, coldVotes |-> 0, activeVoters |-> 0]
    [] id = "recharge" -> [id |-> id, name |-> "2F Recharge Zone", temperature |-> 231,
                           hotVotes |-> 0, coldVotes |-> 0, activeVoters |-> 0]

\* variant: every zone starts at the schema's default temperature of 22.0
InitializeDefaultZonesAtBase(t) ==
  [id \in ZoneIds |->
     [id |-> id, name |-> DefaultZone(id).name,
      temperature |-> BaseTemperature,
      hotVotes |-> DefaultZone(id).hotVotes, coldVotes |-> DefaultZone(id).coldVotes,
      activeVoters |-> DefaultZone(id).activeVoters, lastUpdated |-> t]]

\* initializeDefaultZones: the zones map after the forEach, lastUpdated = new Date()
InitializeDefaultZones(t) ==
  [id \in ZoneIds |->
     [id |-> id, name |-> DefaultZone(id).name,
      temperature |-> DefaultZone(id).temperature,
      hotVotes |-> DefaultZone(id).hotVotes, coldVotes |-> DefaultZone(id).coldVotes,
      activeVoters |-> DefaultZone(id).activeVoters, lastUpdated |-> t]]

\* getZone returns a zone (not undefined): the map has the key
HasZone(zs, id) == id \in DOMAIN zs

\* getZone, for a key the map has
GetZone(zs, id) == zs[id]

\* getAllZones: the map's values in insertion order
GetAllZones(zs) == [i \in 1..Len(ZoneOrder) |-> zs[ZoneOrder[i]]]

\* variant: the write stamps lastUpdated on every zone of the map
UpdateZoneTemperatureStamped(zs, id, temperature, t) ==
  IF id \notin DOMAIN zs THEN zs
  ELSE [z \in DOMAIN zs |->
          IF z = id THEN [zs[z] EXCEPT !.temperature = temperature, !.lastUpdated = t]
          ELSE [zs[z] EXCEPT !.lastUpdated = t]]

\* updateZoneTemperature: the zones map after the call
UpdateZoneTemperature(zs, id, temperature, t) ==
  IF id \notin DOMAIN zs THEN zs
  ELSE [zs EXCEPT ![id].temperature = temperature, ![id].lastUpdated = t]

\* variant: a vote is dropped when the zone already has a vote with its timestamp
CreateVoteOncePerInstant(vs, insertVote, t) ==
  IF \E i \in 1..Len(vs) : vs[i].zoneId = insertVote.zoneId /\ vs[i].timestamp = t
  THEN vs
  ELSE Append(vs, [zoneId |-> insertVote.zoneId, voteType |-> insertVote.voteType,
                   timestamp |-> t])

\* variant: the map is keyed by the zone, a vote replaces the zone's earlier vote
CreateVoteKeyedByZone(vs, insertVote, t) ==
  Append(FilterSeq(vs, {v \in {vs[i] : i \in 1..Len(vs)} : v.zoneId # insertVote.zoneId}),
         [zoneId |-> insertVote.zoneId, voteType |-> insertVote.voteType,
          timestamp |-> t])

\* createVote: the votes map after the call
CreateVote(vs, insertVote, t) ==
  Append(vs, [zoneId |-> insertVote.zoneId, voteType |-> insertVote.voteType,
              timestamp |-> t])

\* variant: the cutoff instant itself is left out
AfterCutoff(timestamp, cutoff) == timestamp > cutoff

\* the comparison vote.timestamp >= cutoff of getRecentVotesByZone
NotBeforeCutoff(timestamp, cutoff) == timestamp >= cutoff

\* variant: the zone is not compared
GetRecentVotesAnyZone(vs, zoneId, minutes, t) ==
  LET cutoff == t - minutes
  IN  FilterSeq(vs, {v \in {vs[i] : i \in 1..Len(vs)} :
                       NotBeforeCutoff(v.timestamp, cutoff)})

\* getRecentVotesByZone: the votes of the zone at or after the cutoff, in map order
GetRecentVotesByZone(vs, zoneId, minutes, t) ==
  LET cutoff == t - minutes
  IN  FilterSeq(vs, {v \in {vs[i] : i \in 1..Len(vs)} :
                       v.zoneId = zoneId /\ NotBeforeCutoff(v.timestamp, cutoff)})

CountType(s, voteType) == Cardinality(SelectIdx(s, LAMBDA v : v.voteType = voteType))

\* getRecentVoteCounts
GetRecentVoteCounts(vs, zoneId, minutes, t) ==
  LET recentVotes == GetRecentVotesByZone(vs, zoneId, minutes, t)
  IN  [hotVotes |-> CountType(recentVotes, "hot"),
       coldVotes |-> CountType(recentVotes, "cold")]

\* variant: a sample that repeats the temperature of the zone's latest sample
\* is dropped
AddTemperatureHistoryDeduped(hs, zoneId, temperature, t) ==
  LET ofZone == {i \in 1..Len(hs) : hs[i].zoneId = zoneId}
      latest == CHOOSE i \in ofZone : \A j \in ofZone : j <= i
  IN  IF ofZone # {} /\ hs[latest].temperature = temperature
      THEN hs
      ELSE Append(hs, [zoneId |-> zoneId, temperature |-> temperature, timestamp |-> t])

\* addTemperatureHistory: the history map after the call
AddTemperatureHistory(hs, zoneId, temperature, t) ==
  Append(hs, [zoneId |-> zoneId, temperature |-> temperature, timestamp |-> t])

\* the setInterval callback of startTemperatureHistoryCapture: one sample per zone
RECURSIVE CaptureAll(_, _, _, _)
CaptureAll(hs, zs, i, t) ==
  IF i > Len(ZoneOrder) THEN hs
  ELSE CaptureAll(AddTemperatureHistory(hs, zs[ZoneOrder[i]].id,
                                        zs[ZoneOrder[i]].temperature, t),
                  zs, i + 1, t)

\* variant: the lookup never finds a record
FindConnectionNever(cs, sessionId) == 0

\* the record updateConnection finds for the session: its index, or 0
FindConnection(cs, sessionId) ==
  LET hits == SelectIdx(cs, LAMBDA c : c.sessionId = sessionId)
  IN  IF hits = {} THEN 0 ELSE CHOOSE i \in hits : \A j \in hits : i <= j

\* updateConnection: the connections map after the call; id is the fresh UUID
UpdateConnection(cs, sessionId, id, t) ==
  LET existing == FindConnection(cs, sessionId)
  IN  IF existing # 0
      THEN [cs EXCEPT ![existing].lastSeen = t]
      ELSE Append(cs, [id |-> id, sessionId |-> sessionId, lastSeen |-> t])

\* variant: a record last seen exactly at the cutoff counts as stale
IsStaleAtCutoff(lastSeen, cutoff) == lastSeen <= cutoff

\* the comparison connection.lastSeen < cutoff of cleanupOldConnections
IsStale(lastSeen, cutoff) == lastSeen < cutoff

\* cleanupOldConnections: the connections map after the call
CleanupOldConnections(cs, minutes, t) ==
  LET cutoff == t - minutes
  IN  FilterSeq(cs, {c \in {cs[i] : i \in 1..Len(cs)} : ~IsStale(c.lastSeen, cutoff)})

\* variant: the records are filtered by staleness when they are read
GetFreshConnections(cs) ==
  FilterSeq(cs, {c \in {cs[i] : i \in 1..Len(cs)} : c.lastSeen >= now - CleanupMinutes})

\* getActiveConnections
GetActiveConnections(cs) == cs

(***************************************************************************)
(* Request helpers                                                         *)
(***************************************************************************)
\* variant: voteType is any string
ValidVoteAnyType(body) == body.zoneId # Missing /\ body.voteType # Missing

\* voteRequestSchema.parse succeeds
ValidVote(body) == body.zoneId # Missing /\ body.voteType \in {"hot", "cold"}

\* req.headers['x-session-id'] || randomUUID(); n numbers the UUID drawn
UuidNames == <<"u1", "u2", "u3", "u4", "u5", "u6", "u7", "u8">>

UuidOf(n) == UuidNames[n]

SessionOf(header, n) == IF header = Missing THEN UuidOf(n) ELSE header

\* UUIDs one updateConnection(req.headers[..] || randomUUID()) call draws
UuidsDrawn(cs, header) ==
  IF header = Missing THEN 2
  ELSE IF FindConnection(cs, header) = 0 THEN 1 ELSE 0

\* the connections after the handler's connection tracking
Touch(cs, header, n, t) ==
  IF header = Missing
  THEN UpdateConnection(cs, UuidOf(n + 1), UuidOf(n + 2), t)
  ELSE UpdateConnection(cs, header, UuidOf(n + 1), t)

\* variant: the difference is taken the other way round
NewTemperatureFlipped(recentVotes) ==
  LET voteDifference == recentVotes.coldVotes - recentVotes.hotVotes
  IN  BaseTemperature + voteDifference

\* Math.round((22.0 + voteDifference * 0.1) * 10) / 10, in tenths of a degree:
\* (22.0 + d * 0.1) * 10 is within rounding error of the integer 220 + d
NewTemperature(recentVotes) ==
  LET voteDifference == recentVotes.hotVotes - recentVotes.coldVotes
  IN  BaseTemperature + voteDifference

\* parseInt(s): an optional sign, then the leading decimal digits
Digits == <<"0", "1", "2", "3", "4", "5", "6", "7", "8", "9">>

IsDigit(c) == \E d \in 1..10 : Digits[d] = c

DigitValue(c) == (CHOOSE d \in 1..10 : Digits[d] = c) - 1

RECURSIVE ParseDigits(_, _)
ParseDigits(s, acc) ==
  IF s = <<>> \/ ~IsDigit(s[1]) THEN acc
  ELSE ParseDigits(Tail(s), (acc * 10) + DigitValue(s[1]))

ParseInt(s) ==
  LET negative == s # <<>> /\ s[1] = "-"
      rest == IF s # <<>> /\ s[1] \in {"-", "+"} THEN Tail(s) ELSE s
  IN  IF rest = <<>> \/ ~IsDigit(rest[1]) THEN [nan |-> TRUE, value |-> 0]
      ELSE [nan |-> FALSE,
            value |-> IF negative THEN 0 - ParseDigits(rest, 0) ELSE ParseDigits(rest, 0)]

\* variant: no default, a missing or unparsable parameter counts as 0 hours
HoursOfNoDefault(query) ==
  LET parsed == ParseInt(query)
  IN  IF parsed.nan THEN 0 ELSE parsed.value

\* parseInt(req.query.hours) || 6
HoursOf(query) ==
  LET parsed == ParseInt(query)
  IN  IF parsed.nan \/ parsed.value = 0 THEN DefaultHours ELSE parsed.value

\* Date.getMinutes(): the minute of the hour in the server's local time
GetMinutes(t) == (t + TzOffset) % 60

\* Date.setMinutes(minutes, 0, 0)
SetMinutes(t, minutes) == (t - GetMinutes(t)) + minutes

\* variant: Math.round in place of Math.floor
IntervalStartRounded(t) ==
  SetMinutes(t, ((GetMinutes(t) + 5) \div IntervalMinutes) * IntervalMinutes)

\* "Round down to nearest 10-minute mark"
IntervalStart(t) ==
  SetMinutes(t, (GetMinutes(t) \div IntervalMinutes) * IntervalMinutes)

\* Date.toISOString() of a whole minute: the UTC day, hour and minute
ToISOString(t) == [day |-> t \div 1440, hour |-> (t % 1440) \div 60, minute |-> t % 60]

\* variant: substring(0, 13), the key stops at the hour
IntervalKeyHour(t) == <<ToISOString(t).day, ToISOString(t).hour>>

\* toISOString().substring(0, 16): YYYY-MM-DDTHH:MM
IntervalKey(t) == <<ToISOString(t).day, ToISOString(t).hour, ToISOString(t).minute>>

\* the instant an ISO string denotes (what a client's new Date(timestamp) gives)
DateOf(iso) == (iso.day * 1440) + (iso.hour * 60) + iso.minute

\* variant: a bucket records that a vote type occurred, not how many times
IntervalDataFlags(allVotes) ==
  LET KeyOf(v) == IntervalKey(IntervalStart(v.timestamp))
      keys == {KeyOf(allVotes[i]) : i \in 1..Len(allVotes)}
  IN  [k \in keys |->
        [hot  |-> IF \E i \in 1..Len(allVotes) :
                       KeyOf(allVotes[i]) = k /\ allVotes[i].voteType = "hot"
                  THEN 1 ELSE 0,
         cold |-> IF \E i \in 1..Len(allVotes) :
                       KeyOf(allVotes[i]) = k /\ allVotes[i].voteType # "hot"
                  THEN 1 ELSE 0]]

\* the intervalData map after the forEach over allVotes
IntervalData(allVotes) ==
  LET KeyOf(v) == IntervalKey(IntervalStart(v.timestamp))
      keys == {KeyOf(allVotes[i]) : i \in 1..Len(allVotes)}
  IN  [k \in keys |->
        [hot  |-> Cardinality({i \in 1..Len(allVotes) :
                     KeyOf(allVotes[i]) = k /\ allVotes[i].voteType = "hot"}),
         cold |-> Cardinality({i \in 1..Len(allVotes) :
                     KeyOf(allVotes[i]) = k /\ allVotes[i].voteType # "hot"})]]

\* the result array of GET /api/zones/:id/vote-history
VoteHistory(vs, zoneId, hours, t) ==
  LET allVotes == GetRecentVotesByZone(vs, zoneId, hours * 60, t)
      intervalData == IntervalData(allVotes)
      totalIntervals == hours * IntervalsPerHour
      Entry(i) ==
        LET intervalDate == IntervalStart(t - (i * IntervalMinutes))
            intervalKey == IntervalKey(intervalDate)
            data == IF intervalKey \in DOMAIN intervalData
                    THEN intervalData[intervalKey] ELSE [hot |-> 0, cold |-> 0]
        IN  [timestamp |-> ToISOString(intervalDate),
             hotVotes |-> data.hot, coldVotes |-> data.cold]
  IN  [j \in 1..totalIntervals |-> Entry(totalIntervals - j)]

\* variant: the stored zones are returned as they are
ZoneViewsStored(zs, vs, t) == GetAllZones(zs)

\* the zone views of GET /api/zones
ZoneViews(zs, vs, t) ==
  [i \in 1..Len(ZoneOrder) |->
     LET zone == GetAllZones(zs)[i]
         recentVotes == GetRecentVoteCounts(vs, zone.id, VoteWindowMinutes, t)
     IN  [zone EXCEPT !.hotVotes = recentVotes.hotVotes,
                      !.coldVotes = recentVotes.coldVotes]]

RECURSIVE SumSeq(_)
SumSeq(s) == IF s = <<>> THEN 0 ELSE s[1] + SumSeq(Tail(s))

SumOver(s, F(_)) == SumSeq([i \in 1..Len(s) |-> F(s[i])])

\* variant: the mean is cut off after the first decimal
TruncatedMean(sum, n) == sum \div n

\* Math.round(x * 10) / 10 of the mean of n values whose sum is `sum` tenths
RoundedMean(sum, n) == ((2 * sum) + n) \div (2 * n)

\* the body of GET /api/stats
Stats(zs, vs, cs, t) ==
  LET all == GetAllZones(zs)
      Hot(zone) == GetRecentVoteCounts(vs, zone.id, VoteWindowMinutes, t).hotVotes
      Cold(zone) == GetRecentVoteCounts(vs, zone.id, VoteWindowMinutes, t).coldVotes
      Temp(zone) == zone.temperature
      totalHotVotes == SumOver(all, Hot)
      totalColdVotes == SumOver(all, Cold)
  IN  [totalVotes |-> totalHotVotes + totalColdVotes,
       hotVotes |-> totalHotVotes,
       coldVotes |-> totalColdVotes,
       averageTemperature |-> RoundedMean(SumOver(all, Temp), Len(all)),
       connectedUsers |-> Len(GetActiveConnections(cs)),
       zones |-> Len(all)]

(***************************************************************************)
(* State                                                                   *)
(***************************************************************************)
NoCounts == [hotVotes |-> 0, coldVotes |-> 0]

\* a POST /api/vote handler that is not running; countedAt and countedLen
\* record the clock and the ledger length when recentVotes was read
IdleReq == [pc |-> "idle", zoneId |-> Missing, voteType |-> Missing,
            recentVotes |-> NoCounts, newTemperature |-> 0,
            countedAt |-> 0, countedLen |-> 0]

NoResponse == [op |-> "none", status |-> 0]

Init ==
  /\ now = StartTime
  /\ zones = InitializeDefaultZones(StartTime)
  /\ votes = <<>>
  /\ temperatureHistory = <<>>
  /\ activeConnections = <<>>
  /\ uuids = 0
  /\ nextCapture = StartTime + CapturePeriod
  /\ nextCleanup = StartTime + CleanupPeriod
  /\ req = [r \in Slots |-> IdleReq]
  /\ res = NoResponse
  /\ accepted = 0
  /\ ticks = 0

InFlight == {r \in Slots : req[r].pc # "idle"}

(***************************************************************************)
(* The clock and the two interval timers                                   *)
(***************************************************************************)
\* time passes until instant t
Tick(t) ==
  /\ t > now
  /\ now' = t
  /\ res' = NoResponse
  /\ UNCHANGED <<zones, votes, temperatureHistory, activeConnections,
                 uuids, nextCapture, nextCleanup, req>>
  /\ UNCHANGED <<accepted, ticks>>

\* variant: the callback also recomputes every zone's temperature
CaptureTimerDecaying ==
  /\ now >= nextCapture
  /\ temperatureHistory' = CaptureAll(temperatureHistory, zones, 1, now)
  /\ zones' = [id \in DOMAIN zones |->
                 [zones[id] EXCEPT !.temperature =
                    NewTemperature(GetRecentVoteCounts(votes, id, VoteWindowMinutes, now))]]
  /\ nextCapture' = now + CapturePeriod
  /\ res' = NoResponse
  /\ UNCHANGED <<now, votes, activeConnections, uuids, nextCleanup, req>>
  /\ ticks' = ticks + 1
  /\ UNCHANGED accepted

\* startTemperatureHistoryCapture: the callback runs once its interval has elapsed
CaptureTimer ==
  /\ now >= nextCapture
  /\ temperatureHistory' = CaptureAll(temperatureHistory, zones, 1, now)
  /\ nextCapture' = now + CapturePeriod
  /\ res' = NoResponse
  /\ UNCHANGED <<now, zones, votes, activeConnections, uuids, nextCleanup, req>>
  /\ ticks' = ticks + 1
  /\ UNCHANGED accepted

\* variant: setTimeout in place of setInterval, the callback runs once only
CleanupTimerOnce ==
  /\ now >= nextCleanup
  /\ activeConnections' = CleanupOldConnections(activeConnections, CleanupMinutes, now)
  /\ nextCleanup' = StartTime + MaxTime + 1
  /\ res' = NoResponse
  /\ UNCHANGED <<now, zones, votes, temperatureHistory, uuids, nextCapture, req>>
  /\ UNCHANGED <<accepted, ticks>>

\* startConnectionCleanup: the callback runs once its interval has elapsed
CleanupTimer ==
  /\ now >= nextCleanup
  /\ activeConnections' = CleanupOldConnections(activeConnections, CleanupMinutes, now)
  /\ nextCleanup' = now + CleanupPeriod
  /\ res' = NoResponse
  /\ UNCHANGED <<now, zones, votes, temperatureHistory, uuids, nextCapture, req>>
  /\ UNCHANGED <<accepted, ticks>>

(***************************************************************************)
(* GET handlers                                                            *)
(***************************************************************************)
\* GET /api/zones
GetZones(header) ==
  /\ activeConnections' = Touch(activeConnections, header, uuids, now)
  /\ uuids' = uuids + UuidsDrawn(activeConnections, header)
  /\ res' = [op |-> "zones", status |-> 200, body |-> ZoneViews(zones, votes, now)]
  /\ UNCHANGED <<now, zones, votes, temperatureHistory, nextCapture, nextCleanup, req>>
  /\ UNCHANGED <<accepted, ticks>>

\* variant: the zone is answered with its recency counts laid over it
GetZoneByIdCounted(id) ==
  /\ IF HasZone(zones, id)
     THEN res' = [op |-> "zone", status |-> 200,
                  body |-> [GetZone(zones, id) EXCEPT
                     !.hotVotes = GetRecentVoteCounts(votes, id, 10, now).hotVotes,
                     !.coldVotes = GetRecentVoteCounts(votes, id, 10, now).coldVotes]]
     ELSE res' = [op |-> "zone", status |-> 404]
  /\ UNCHANGED <<now, zones, votes, temperatureHistory, activeConnections,
                 uuids, nextCapture, nextCleanup, req>>
  /\ UNCHANGED <<accepted, ticks>>

\* GET /api/zones/:id
GetZoneById(id) ==
  /\ IF HasZone(zones, id)
     THEN res' = [op |-> "zone", status |-> 200, body |-> GetZone(zones, id)]
     ELSE res' = [op |-> "zone", status |-> 404]
  /\ UNCHANGED <<now, zones, votes, temperatureHistory, activeConnections,
                 uuids, nextCapture, nextCleanup, req>>
  /\ UNCHANGED <<accepted, ticks>>

\* GET /api/stats
GetStats ==
  /\ res' = [op |-> "stats", status |-> 200,
             stats |-> Stats(zones, votes, activeConnections, now)]
  /\ UNCHANGED <<now, zones, votes, temperatureHistory, activeConnections,
                 uuids, nextCapture, nextCleanup, req>>
  /\ UNCHANGED <<accepted, ticks>>

\* GET /api/zones/:id/vote-history?hours=query
GetVoteHistory(id, query) ==
  /\ res' = [op |-> "history", status |-> 200, zoneId |-> id, query |-> query,
             hours |-> HoursOf(query),
             body |-> VoteHistory(votes, id, HoursOf(query), now)]
  /\ UNCHANGED <<now, zones, votes, temperatureHistory, activeConnections,
                 uuids, nextCapture, nextCleanup, req>>
  /\ UNCHANGED <<accepted, ticks>>

(***************************************************************************)
(* POST /api/vote: one action per stretch of the handler between awaits.   *)
(* The await of the first storage.getZone is not a step of its own: the    *)
(* key set of the zones map never changes, so the handler finds the same   *)
(* zone wherever that await resumes.                                       *)
(***************************************************************************)
\* voteRequestSchema.parse throws: the catch block answers 400
PostVoteInvalid(body) ==
  /\ ~ValidVote(body)
  /\ res' = [op |-> "vote", status |-> 400, zoneId |-> body.zoneId,
             voteType |-> body.voteType]
  /\ UNCHANGED <<now, zones, votes, temperatureHistory, activeConnections,
                 uuids, nextCapture, nextCleanup, req>>
  /\ UNCHANGED <<accepted, ticks>>

\* variant: the vote is created before the zone is looked up
PostVoteNotFoundLate(body) ==
  /\ ValidVote(body)
  /\ ~HasZone(zones, body.zoneId)
  /\ votes' = CreateVote(votes, body, now)
  /\ res' = [op |-> "vote", status |-> 404, zoneId |-> body.zoneId,
             voteType |-> body.voteType]
  /\ UNCHANGED <<now, zones, temperatureHistory, activeConnections,
                 uuids, nextCapture, nextCleanup, req>>
  /\ UNCHANGED <<accepted, ticks>>

\* parse succeeds but storage.getZone finds no zone: 404
PostVoteNotFound(body) ==
  /\ ValidVote(body)
  /\ ~HasZone(zones, body.zoneId)
  /\ res' = [op |-> "vote", status |-> 404, zoneId |-> body.zoneId,
             voteType |-> body.voteType]
  /\ UNCHANGED <<now, zones, votes, temperatureHistory, activeConnections,
                 uuids, nextCapture, nextCleanup, req>>
  /\ UNCHANGED <<accepted, ticks>>

\* variant: the handler does not look the zone up before it goes on
PostVoteBeginUnchecked(r, body, header) ==
  /\ req[r].pc = "idle"
  /\ ValidVote(body)
  /\ activeConnections' = Touch(activeConnections, header, uuids, now)
  /\ uuids' = uuids + UuidsDrawn(activeConnections, header)
  /\ req' = [req EXCEPT ![r] = [IdleReq EXCEPT !.pc = "create",
                                               !.zoneId = body.zoneId,
                                               !.voteType = body.voteType]]
  /\ res' = NoResponse
  /\ UNCHANGED <<now, zones, votes, temperatureHistory, nextCapture, nextCleanup>>
  /\ accepted' = accepted + 1
  /\ UNCHANGED ticks

\* parse succeeds, the zone exists; storage.updateConnection is called and awaited
PostVoteBegin(r, body, header) ==
  /\ req[r].pc = "idle"
  /\ ValidVote(body)
  /\ HasZone(zones, body.zoneId)
  /\ activeConnections' = Touch(activeConnections, header, uuids, now)
  /\ uuids' = uuids + UuidsDrawn(activeConnections, header)
  /\ req' = [req EXCEPT ![r] = [IdleReq EXCEPT !.pc = "create",
                                               !.zoneId = body.zoneId,
                                               !.voteType = body.voteType]]
  /\ res' = NoResponse
  /\ UNCHANGED <<now, zones, votes, temperatureHistory, nextCapture, nextCleanup>>
  /\ accepted' = accepted + 1
  /\ UNCHANGED ticks

\* storage.createVote is called and awaited
PostVoteCreate(r) ==
  /\ req[r].pc = "create"
  /\ votes' = CreateVote(votes, [zoneId |-> req[r].zoneId, voteType |-> req[r].voteType],
                         now)
  /\ req' = [req EXCEPT ![r].pc = "count"]
  /\ res' = NoResponse
  /\ UNCHANGED <<now, zones, temperatureHistory, activeConnections,
                 uuids, nextCapture, nextCleanup>>
  /\ UNCHANGED <<accepted, ticks>>

\* variant: the recency counts are those of the ledger before its latest entry
PostVoteCountBeforeCreate(r) ==
  /\ req[r].pc = "count"
  /\ req' = [req EXCEPT ![r].pc = "write",
                        ![r].recentVotes =
                           GetRecentVoteCounts(SubSeq(votes, 1, Len(votes) - 1),
                                               req[r].zoneId, VoteWindowMinutes, now),
                        ![r].countedAt = now,
                        ![r].countedLen = Len(votes)]
  /\ res' = NoResponse
  /\ UNCHANGED <<now, zones, votes, temperatureHistory, activeConnections,
                 uuids, nextCapture, nextCleanup>>
  /\ UNCHANGED <<accepted, ticks>>

\* storage.getRecentVoteCounts(zoneId, 10) is called and awaited
PostVoteCount(r) ==
  /\ req[r].pc = "count"
  /\ req' = [req EXCEPT ![r].pc = "write",
                        ![r].recentVotes =
                           GetRecentVoteCounts(votes, req[r].zoneId, VoteWindowMinutes, now),
                        ![r].countedAt = now,
                        ![r].countedLen = Len(votes)]
  /\ res' = NoResponse
  /\ UNCHANGED <<now, zones, votes, temperatureHistory, activeConnections,
                 uuids, nextCapture, nextCleanup>>
  /\ UNCHANGED <<accepted, ticks>>

\* variant: the vote moves the zone's stored temperature by a tenth
PostVoteWriteIncremental(r) ==
  /\ req[r].pc = "write"
  /\ LET moved == IF req[r].voteType = "hot"
                  THEN zones[req[r].zoneId].temperature + 1
                  ELSE zones[req[r].zoneId].temperature - 1
     IN  /\ zones' = UpdateZoneTemperature(zones, req[r].zoneId, moved, now)
         /\ req' = [req EXCEPT ![r].pc = "sample", ![r].newTemperature = moved]
  /\ res' = NoResponse
  /\ UNCHANGED <<now, votes, temperatureHistory, activeConnections,
                 uuids, nextCapture, nextCleanup>>
  /\ UNCHANGED <<accepted, ticks>>

\* newTemperature is computed; storage.updateZoneTemperature is called and awaited
PostVoteWrite(r) ==
  /\ req[r].pc = "write"
  /\ zones' = UpdateZoneTemperature(zones, req[r].zoneId,
                                    NewTemperature(req[r].recentVotes), now)
  /\ req' = [req EXCEPT ![r].pc = "sample",
                        ![r].newTemperature = NewTemperature(req[r].recentVotes)]
  /\ res' = NoResponse
  /\ UNCHANGED <<now, votes, temperatureHistory, activeConnections,
                 uuids, nextCapture, nextCleanup>>
  /\ UNCHANGED <<accepted, ticks>>

\* storage.addTemperatureHistory is called and awaited
PostVoteSample(r) ==
  /\ req[r].pc = "sample"
  /\ temperatureHistory' = AddTemperatureHistory(temperatureHistory, req[r].zoneId,
                                                 req[r].newTemperature, now)
  /\ req' = [req EXCEPT ![r].pc = "respond"]
  /\ res' = NoResponse
  /\ UNCHANGED <<now, zones, votes, activeConnections,
                 uuids, nextCapture, nextCleanup>>
  /\ UNCHANGED <<accepted, ticks>>

\* storage.getZone is called and awaited; res.json sends the overlaid zone
PostVoteRespond(r) ==
  /\ req[r].pc = "respond"
  /\ res' = [op |-> "vote", status |-> 200, zoneId |-> req[r].zoneId,
             voteType |-> req[r].voteType,
             body |-> [GetZone(zones, req[r].zoneId) EXCEPT
                         !.hotVotes = req[r].recentVotes.hotVotes,
                         !.coldVotes = req[r].recentVotes.coldVotes]]
  /\ req' = [req EXCEPT ![r] = IdleReq]
  /\ UNCHANGED <<now, zones, votes, temperatureHistory, activeConnections,
                 uuids, nextCapture, nextCleanup>>
  /\ UNCHANGED <<accepted, ticks>>

\* a running handler resumes after the await it is suspended at
PostVoteStep(r) ==
  \/ PostVoteCreate(r)
  \/ PostVoteCount(r)
  \/ PostVoteWrite(r)
  \/ PostVoteSample(r)
  \/ PostVoteRespond(r)

(***************************************************************************)
(* Specifications                                                          *)
(***************************************************************************)
\* the instants at which anything happens: the multiples of the cleanup period
\* after construction, the minute before the first of them, and the last minute
Instants ==
  {StartTime + d : d \in {d \in 0..MaxTime :
      d % CleanupPeriod = 0 \/ d = CleanupPeriod - 1 \/ d = MaxTime}}

LaterInstants == {t \in Instants : t > now}

NextInstant == CHOOSE t \in LaterInstants : \A u \in LaterInstants : t <= u

\* an interval callback that is due runs before the minute is over
TimersPunctual == now < nextCapture /\ now < nextCleanup

\* a handler suspended at an await resumes within the minute or the one after it
HandlersPrompt == InFlight = {} \/ NextInstant = now + 1

\* time passes until the next instant
Pass ==
  /\ LaterInstants # {}
  /\ HandlersPrompt
  /\ Tick(NextInstant)

\* a long stretch in which nothing happens, after the minutes explored one by one
Quiet ==
  /\ InFlight = {}
  /\ now <= StartTime + MaxTime
  /\ Tick(now + QuietMinutes)

\* the UUIDs a handler's connection tracking draws are within the bound
CanDraw(header) == uuids + UuidsDrawn(activeConnections, header) <= MaxUuids

\* one more vote may be accepted within the bound
CanVote(bound) == Len(votes) + Cardinality({r \in Slots : req[r].pc = "create"}) < bound

\* the whole server, POST /api/vote requests arriving one at a time
Next ==
  \/ TimersPunctual /\ Pass
  \/ CaptureTimer
  \/ CleanupTimer
  \/ \E header \in SessionInputs : CanDraw(header) /\ GetZones(header)
  \/ \E id \in PathInputs : GetZoneById(id)
  \/ GetStats
  \/ GetVoteHistory("zone-a", <<"1">>)
  \/ \E body \in VoteBodies : PostVoteInvalid(body)
  \/ \E body \in VoteBodies : PostVoteNotFound(body)
  \/ \E body \in VoteBodies, header \in SessionInputs :
       CanVote(MaxVotes) /\ CanDraw(header) /\ PostVoteBegin("r1", body, header)
  \/ PostVoteStep("r1")

Spec == Init /\ [][Next]_vars

\* the vote pipeline with two handlers running concurrently, in the stretch
\* before either interval callback has run
NextConcurrent ==
  \/ Pass
  \/ \E r \in Slots, body \in VoteBodies :
       CanVote(MaxVotes) /\ CanDraw("s1") /\ PostVoteBegin(r, body, "s1")
  \/ \E r \in Slots : PostVoteStep(r)

SpecConcurrent == Init /\ [][NextConcurrent]_vars

\* the vote pipeline alone, one request at a time, in the same stretch
NextSerial ==
  \/ Pass
  \/ \E body \in VoteBodies :
       CanVote(MaxBurst) /\ CanDraw("s1") /\ PostVoteBegin("r1", body, "s1")
  \/ PostVoteStep("r1")

SpecSerial == Init /\ [][NextSerial]_vars

\* vote history requests between votes that arrive one at a time, in the same
\* stretch, with a long quiet stretch in it
NextHistory ==
  \/ Pass
  \/ Quiet
  \/ \E body \in VoteBodies :
       CanVote(MaxVotes) /\ CanDraw("s1") /\ PostVoteBegin("r1", body, "s1")
  \/ PostVoteStep("r1")
  \/ \E id \in PathInputs, query \in HoursInputs : GetVoteHistory(id, query)

SpecHistory == Init /\ [][NextHistory]_vars

\* x-session-id header values of two clients
SweepSessions == {"s1", "s2"}

\* a minute passes
Minute ==
  /\ now < StartTime + MaxTime
  /\ Tick(now + 1)

\* a session touched now is judged by a sweep within the minutes explored: the
\* last sweep that keeps it is followed by one more, a cleanup period later
CanSettle == now + CleanupMinutes + CleanupPeriod <= StartTime + MaxTime

\* the connection tracker: sessions touched by GET /api/zones, counted by
\* GET /api/stats and swept by the cleanup interval, which may run late; the
\* clock keeps running and an interval callback that is due runs eventually
NextSweep ==
  \/ Minute
  \/ CleanupTimer
  \/ \E header \in SweepSessions : CanSettle /\ CanDraw(header) /\ GetZones(header)
  \/ GetStats

SpecSweep ==
  Init /\ [][NextSweep]_vars /\ WF_vars(Minute) /\ WF_vars(CleanupTimer)

(***************************************************************************)
(* Properties                                                              *)
(***************************************************************************)
\* the votes of zone z among the first upTo ledger entries
ZoneVotes(z, upTo) == {i \in 1..upTo : votes[i].zoneId = z}

\* the votes of zone z and one type among the first upTo ledger entries whose
\* timestamp is not older than 10 minutes at instant `at`
WindowCount(z, voteType, upTo, at) ==
  Cardinality({i \in ZoneVotes(z, upTo) :
                 votes[i].voteType = voteType /\ votes[i].timestamp >= at - 10})

\* handler r writes the temperature in this step
Writes(r) == req[r].pc = "write" /\ req'[r].pc = "sample"

\* no vote of r's zone was appended after r read its recency counts
NoVoteSinceCount(r) ==
  \A i \in (req[r].countedLen + 1)..Len(votes) : votes[i].zoneId # req[r].zoneId

\* a zone whose every vote is hot and inside the window, no handler running
HotBurst(z) ==
  /\ InFlight = {}
  /\ ZoneVotes(z, Len(votes)) # {}
  /\ \A i \in ZoneVotes(z, Len(votes)) :
       votes[i].voteType = "hot" /\ votes[i].timestamp >= now - 10

\* C1: when a handler writes the temperature of its zone z and no other vote
\* for z was appended since it read its counts, the stored temperature becomes
\* 22.0 + 0.1 * (hot - cold) over z's votes not older than 10 minutes at the
\* time of the count; after a burst of k hot votes and nothing else it is
\* 22.0 + 0.1 * k.
C1_TemperatureFromWindow ==
  /\ [](\A z \in ZoneIds :
          HotBurst(z) => zones[z].temperature = 220 + Cardinality(ZoneVotes(z, Len(votes))))
  /\ [][\A r \in Slots :
          (Writes(r) /\ NoVoteSinceCount(r)) =>
             zones'[req[r].zoneId].temperature =
               (220 + WindowCount(req[r].zoneId, "hot", Len(votes), req[r].countedAt))
                 - WindowCount(req[r].zoneId, "cold", Len(votes), req[r].countedAt)]_vars

\* three hot votes on zone-a, seeded at 21.8, have just been written as 22.3
C1_Witness ==
  /\ DefaultZone("zone-a").temperature = 218
  /\ Len(votes) = 3
  /\ \A i \in 1..3 : votes[i].zoneId = "zone-a" /\ votes[i].voteType = "hot"
  /\ req["r1"].pc = "sample"
  /\ req["r1"].recentVotes = [hotVotes |-> 3, coldVotes |-> 0]
  /\ zones["zone-a"].temperature = 223

\* C2: the counts a handler reads are exactly the numbers of hot and of cold
\* votes of its zone whose timestamp is at or after the count instant minus
\* 10 minutes; older votes and votes of other zones are not counted.
C2_RecentCountsExact ==
  \A r \in Slots :
    req[r].pc \in {"write", "sample", "respond"} =>
      req[r].recentVotes =
        [hotVotes  |-> WindowCount(req[r].zoneId, "hot", req[r].countedLen, req[r].countedAt),
         coldVotes |-> WindowCount(req[r].zoneId, "cold", req[r].countedLen, req[r].countedAt)]

\* a count that left out an aged vote of the zone and a vote of another zone
C2_Witness ==
  /\ req["r1"].pc = "write"
  /\ req["r1"].recentVotes.hotVotes + req["r1"].recentVotes.coldVotes = 1
  /\ \E i \in 1..Len(votes) :
       votes[i].zoneId = req["r1"].zoneId /\ votes[i].timestamp < req["r1"].countedAt - 10
  /\ \E i \in 1..Len(votes) :
       votes[i].zoneId # req["r1"].zoneId /\ votes[i].timestamp >= req["r1"].countedAt - 10

\* every vote of zone z is inside the window: none has aged out
AllInWindow(z) ==
  /\ ZoneVotes(z, Len(votes)) # {}
  /\ \A i \in ZoneVotes(z, Len(votes)) : votes[i].timestamp >= now - 10

HistoryAnswered == res.op = "history" /\ res.hours > 0

\* C4: for every zone id and positive hours the series has hours * 6 entries,
\* each on a 10-minute mark of the server's clock, each 10 minutes after the
\* one before it, and the last entry's interval contains the current instant.
C4_SeriesGrid ==
  HistoryAnswered =>
    LET series == res.body
        At(j) == DateOf(series[j].timestamp)
    IN  /\ Len(series) = res.hours * 6
        /\ \A j \in 1..Len(series) : GetMinutes(At(j)) % 10 = 0
        /\ \A j \in 1..(Len(series) - 1) : At(j + 1) = At(j) + 10
        /\ At(Len(series)) <= now
        /\ now < At(Len(series)) + 10

\* a two-hour series answered off a 10-minute mark, for a zone that has votes
C4_Witness ==
  /\ res.op = "history"
  /\ res.hours = 2
  /\ Len(res.body) = 12
  /\ GetMinutes(now) % 10 # 0
  /\ ZoneVotes(res.zoneId, Len(votes)) # {}

\* C5: every entry of the series counts exactly the hot and the cold votes of
\* the zone whose timestamp lies in the 10 minutes from the entry's timestamp.
C5_SeriesCounts ==
  HistoryAnswered =>
    LET series == res.body
        In(j, voteType) ==
          {i \in ZoneVotes(res.zoneId, Len(votes)) :
             /\ votes[i].voteType = voteType
             /\ DateOf(series[j].timestamp) <= votes[i].timestamp
             /\ votes[i].timestamp < DateOf(series[j].timestamp) + 10}
    IN  \A j \in 1..Len(series) :
          /\ series[j].hotVotes = Cardinality(In(j, "hot"))
          /\ series[j].coldVotes = Cardinality(In(j, "cold"))

\* one cold vote off the 10-minute mark: the one-hour series shows it in the
\* entry that starts at the mark below it and zeros in the other five
C5_Witness ==
  /\ res.op = "history"
  /\ res.hours = 1
  /\ res.zoneId = "zone-a"
  /\ votes # <<>>
  /\ \A i \in 1..Len(votes) :
       i = 1 <=> (votes[i].zoneId = "zone-a" /\ votes[i].voteType = "cold")
  /\ GetMinutes(votes[1].timestamp) % 10 # 0
  /\ Len(res.body) = 6
  /\ \A j \in 1..6 :
       IF DateOf(res.body[j].timestamp)
            = votes[1].timestamp - (GetMinutes(votes[1].timestamp) % 10)
       THEN res.body[j].hotVotes = 0 /\ res.body[j].coldVotes = 1
       ELSE res.body[j].hotVotes = 0 /\ res.body[j].coldVotes = 0
  /\ \E j \in 1..6 : res.body[j].coldVotes = 1

\* C6: for a zone id without a vote in the lookback span, whether or not it
\* names a zone, the series has hours * 6 entries and all of them are zero.
C6_EmptySeries ==
  (/\ HistoryAnswered
   /\ \A i \in ZoneVotes(res.zoneId, Len(votes)) :
        votes[i].timestamp < now - (res.hours * 60)) =>
     /\ Len(res.body) = res.hours * 6
     /\ \A j \in 1..Len(res.body) :
          res.body[j].hotVotes = 0 /\ res.body[j].coldVotes = 0

\* a series for an id that names no zone, answered while the ledger holds votes
C6_Witness ==
  /\ res.op = "history"
  /\ res.zoneId \notin DOMAIN zones
  /\ res.hours > 0
  /\ votes # <<>>
  /\ Len(res.body) = res.hours * 6
  /\ \A j \in 1..Len(res.body) :
       res.body[j].hotVotes = 0 /\ res.body[j].coldVotes = 0

\* what a client can observe of the storage: zones, ledger, samples, connections
Stored == <<zones, votes, temperatureHistory, activeConnections>>

\* the body the vote response res answers passes the schema
WellFormed(response) ==
  response.zoneId # Missing /\ response.voteType \in {"hot", "cold"}

\* C7: a well-formed vote for a zone id that names no zone is answered 404 and
\* changes no zone, vote, sample or connection; no handler runs for such a zone
\* and the ledger never holds a vote for it.
C7_UnknownZoneRejected ==
  /\ [](\A i \in 1..Len(votes) : votes[i].zoneId \in DOMAIN zones)
  /\ [](\A r \in InFlight : req[r].zoneId \in DOMAIN zones)
  /\ [][(res'.op = "vote" /\ WellFormed(res') /\ res'.zoneId \notin DOMAIN zones) =>
          (res'.status = 404 /\ UNCHANGED Stored /\ UNCHANGED <<uuids, req>>)]_vars

\* a 404 answered while the storage holds votes, samples and connections
C7_Witness ==
  /\ res.op = "vote"
  /\ res.status = 404
  /\ res.zoneId = "attic"
  /\ votes # <<>>
  /\ temperatureHistory # <<>>
  /\ activeConnections # <<>>

\* C8: a vote whose type is neither hot nor cold, or that lacks a field, is
\* answered 400 whether or not its zone exists, and changes no zone, vote,
\* sample or connection; no handler runs for such a body and the ledger never
\* holds such a vote.
C8_InvalidVoteRejected ==
  /\ [](\A i \in 1..Len(votes) : votes[i].voteType \in {"hot", "cold"})
  /\ [](\A r \in InFlight : req[r].voteType \in {"hot", "cold"} /\ req[r].zoneId # Missing)
  /\ [][(res'.op = "vote" /\ ~WellFormed(res')) =>
          (res'.status = 400 /\ UNCHANGED Stored /\ UNCHANGED <<uuids, req>>)]_vars

\* a 400 for a "warm" vote on an existing zone, answered while the storage
\* holds votes, samples and connections
C8_Witness ==
  /\ res.op = "vote"
  /\ res.status = 400
  /\ res.voteType = "warm"
  /\ res.zoneId \in DOMAIN zones
  /\ votes # <<>>
  /\ temperatureHistory # <<>>
  /\ activeConnections # <<>>

\* C9: the stored temperature of a zone changes only in the step in which a
\* vote handler for that zone writes it; no GET request, rejected vote, timer
\* callback or passage of time changes it.
C9_TemperatureOnlyByVote ==
  [][\A z \in ZoneIds :
       zones'[z].temperature # zones[z].temperature =>
         \E r \in Slots : Writes(r) /\ req[r].zoneId = z]_vars

\* GET /api/zones reports 0/0 for zone-a, whose votes have all aged out, and
\* still the temperature its last vote wrote
C9_Witness ==
  /\ res.op = "zones"
  /\ ZoneVotes("zone-a", Len(votes)) # {}
  /\ \A i \in ZoneVotes("zone-a", Len(votes)) : votes[i].timestamp < now - 10
  /\ res.body[2].id = "zone-a"
  /\ res.body[2].hotVotes = 0
  /\ res.body[2].coldVotes = 0
  /\ res.body[2].temperature = zones["zone-a"].temperature
  /\ zones["zone-a"].temperature \notin {220, DefaultZone("zone-a").temperature}

\* the session ids that have a record, and the id of a session's first record
SessionsOf(cs) == {cs[i].sessionId : i \in 1..Len(cs)}

RecordOf(cs, sessionId) ==
  cs[CHOOSE i \in 1..Len(cs) : cs[i].sessionId = sessionId]

\* C10: the connection set never holds two records of one session id; a step
\* keeps the record id of every session that stays, refreshes lastSeen without
\* changing the size of the set, and adds at most one record, for a session
\* that had none.
C10_OneRecordPerSession ==
  /\ [](\A i, j \in 1..Len(activeConnections) :
          (activeConnections[i].sessionId = activeConnections[j].sessionId
             \/ activeConnections[i].id = activeConnections[j].id) => i = j)
  /\ [][LET before == activeConnections
            after == activeConnections'
        IN  /\ \A s \in SessionsOf(before) \cap SessionsOf(after) :
                 RecordOf(after, s).id = RecordOf(before, s).id
            /\ (\E s \in SessionsOf(before) \cap SessionsOf(after) :
                  RecordOf(after, s).lastSeen # RecordOf(before, s).lastSeen)
                 => Len(after) = Len(before)
            /\ Len(after) > Len(before) =>
                 /\ Len(after) = Len(before) + 1
                 /\ Cardinality(SessionsOf(after) \ SessionsOf(before)) = 1]_vars

\* the only record ever created belongs to the session that voted at
\* construction time, and a later request has refreshed its lastSeen
C10_Witness ==
  /\ uuids = 1
  /\ Len(activeConnections) = 1
  /\ votes # <<>>
  /\ votes[1].timestamp = StartTime
  /\ activeConnections[1].lastSeen > StartTime
  /\ res.op = "zones"

\* the records of a connection sequence, as a set
Records(cs) == {cs[i] : i \in 1..Len(cs)}

\* the cleanup interval callback runs in this step
Sweeps == nextCleanup' # nextCleanup

\* C11: a sweep with staleMinutes = 5 removes exactly the records whose
\* lastSeen is strictly older than the sweep time minus 5 minutes and keeps
\* every other record as it is, in order; a record is judged by its latest
\* touch, and no other step removes a record.
C11_SweepRemovesExactlyStale ==
  [][/\ Sweeps =>
          /\ Records(activeConnections') =
                {c \in Records(activeConnections) : c.lastSeen >= now - 5}
          /\ \A i, j \in 1..Len(activeConnections') :
                i < j => \E k, l \in 1..Len(activeConnections) :
                           /\ k < l
                           /\ activeConnections[k] = activeConnections'[i]
                           /\ activeConnections[l] = activeConnections'[j]
     /\ ~Sweeps => SessionsOf(activeConnections) \subseteq SessionsOf(activeConnections')]_vars

\* a sweep that runs a minute late has just removed a session touched six
\* minutes before and kept one touched exactly five minutes before
C11_Witness ==
  /\ nextCleanup = now + CleanupPeriod
  /\ now = StartTime + CleanupPeriod + 1
  /\ uuids = 2
  /\ Len(activeConnections) = 1
  /\ activeConnections[1].lastSeen = now - 5

\* session s has a record last seen at instant t
SeenAt(s, t) ==
  \E i \in 1..Len(activeConnections) :
    activeConnections[i].sessionId = s /\ activeConnections[i].lastSeen = t

\* C12: with the clock running and the cleanup interval firing eventually,
\* however late and however interleaved with requests, every record stops
\* being the session's record as last seen at its instant: it is removed
\* unless the session is touched again; and GET /api/stats counts only the
\* sessions that still have a record.
C12_StaleEventuallyRemoved ==
  /\ \A s \in SweepSessions : \A t \in StartTime..(StartTime + MaxTime) :
        SeenAt(s, t) ~> ~SeenAt(s, t)
  /\ [](res.op = "stats" =>
          res.stats.connectedUsers = Cardinality(SessionsOf(activeConnections)))

\* both sessions that were touched have been swept, and GET /api/stats
\* reports no connected user
C12_Witness ==
  /\ uuids = 2
  /\ activeConnections = <<>>
  /\ res.op = "stats"
  /\ res.stats.connectedUsers = 0

\* handler r appends its vote in this step
Creates(r) == req[r].pc = "create" /\ req'[r].pc = "count"

\* C13: the ledger only grows at its end and its events never change; the
\* step in which an accepted submission creates its vote appends exactly one
\* event, for that submission's zone and type and stamped with the current
\* instant, and no other step changes the ledger; the ledger holds one event
\* per accepted submission, those about to create theirs aside.
C13_LedgerAppendOnly ==
  /\ [](Len(votes) + Cardinality({r \in Slots : req[r].pc = "create"}) = accepted)
  /\ [](InFlight = {} => Len(votes) = accepted)
  /\ [][/\ Len(votes') >= Len(votes)
        /\ \A i \in 1..Len(votes) : votes'[i] = votes[i]
        /\ IF \E r \in Slots : Creates(r)
           THEN \E r \in Slots :
                  /\ Creates(r)
                  /\ votes' = Append(votes, [zoneId |-> req[r].zoneId,
                                             voteType |-> req[r].voteType,
                                             timestamp |-> now])
           ELSE votes' = votes]_vars

\* two accepted votes for one zone, minutes apart, both in the ledger after a
\* capture tick and a rejected submission
C13_Witness ==
  /\ accepted = 2
  /\ Len(votes) = 2
  /\ votes[1].zoneId = votes[2].zoneId
  /\ votes[1].timestamp < votes[2].timestamp
  /\ ticks > 0
  /\ res.op = "vote"
  /\ res.status = 400

\* C14: in every reachable state the zoneId of every ledger event and of
\* every temperature sample is the id of a zone of the storage, and the zone
\* ids of the storage are the five seeded ones.
C14_ReferentialIntegrity ==
  /\ DOMAIN zones = ZoneIds
  /\ \A id \in DOMAIN zones : zones[id].id = id
  /\ \A i \in 1..Len(votes) : votes[i].zoneId \in DOMAIN zones
  /\ \A i \in 1..Len(temperatureHistory) : temperatureHistory[i].zoneId \in DOMAIN zones

\* the storage holds votes, vote samples and snapshot samples, and a vote for
\* a zone id that names no zone has just been turned away
C14_Witness ==
  /\ accepted > 0
  /\ ticks > 0
  /\ InFlight = {}
  /\ Len(temperatureHistory) = accepted + (Cardinality(ZoneIds) * ticks)
  /\ res.op = "vote"
  /\ res.status = 404
  /\ res.zoneId \notin DOMAIN zones

\* handler r appends its temperature sample in this step
Samples(r) == req[r].pc = "sample" /\ req'[r].pc = "respond"

\* the temperature history interval callback runs in this step
Captures == ticks' # ticks

\* handlers that were accepted and have not appended their sample yet
BeforeSample == {r \in Slots : req[r].pc \in {"create", "count", "write", "sample"}}

\* C15: the samples only grow at their end and never change.  The step in
\* which a vote handler samples appends exactly one sample, for the voted zone
\* with the temperature the handler has just written, which is the zone's
\* stored temperature; a snapshot tick appends exactly one sample per zone
\* with the zone's stored temperature and changes no zone, vote or
\* connection; no other step appends.  The number of samples is the number
\* of accepted votes (those yet to sample aside) plus zones times ticks.
C15_SamplesAppendOnly ==
  /\ [](Len(temperatureHistory) + Cardinality(BeforeSample)
          = accepted + (Cardinality(ZoneIds) * ticks))
  /\ [](InFlight = {} =>
          Len(temperatureHistory) = accepted + (Cardinality(ZoneIds) * ticks))
  /\ [][LET old == temperatureHistory
            new == temperatureHistory'
            added == (Len(old) + 1)..Len(new)
        IN  /\ Len(new) >= Len(old)
            /\ \A i \in 1..Len(old) : new[i] = old[i]
            /\ CASE \E r \in Slots : Samples(r) ->
                     \E r \in Slots :
                       /\ Samples(r)
                       /\ req[r].newTemperature = zones[req[r].zoneId].temperature
                       /\ new = Append(old, [zoneId |-> req[r].zoneId,
                                             temperature |-> req[r].newTemperature,
                                             timestamp |-> now])
                 [] Captures ->
                     /\ Len(new) = Len(old) + Cardinality(ZoneIds)
                     /\ \A z \in ZoneIds :
                          \E k \in added :
                            new[k] = [zoneId |-> z, temperature |-> zones[z].temperature,
                                      timestamp |-> now]
                     /\ UNCHANGED <<zones, votes, activeConnections>>
                 [] OTHER -> new = old]_vars

\* a vote sample, then the five samples of a snapshot tick, the one for the
\* voted zone carrying the temperature the vote wrote, then a second vote
\* sample
C15_Witness ==
  /\ accepted = 2
  /\ ticks = 1
  /\ InFlight = {}
  /\ Len(temperatureHistory) = 7
  /\ temperatureHistory[1].zoneId = "zone-a"
  /\ temperatureHistory[3].zoneId = "zone-a"
  /\ temperatureHistory[3].temperature = temperatureHistory[1].temperature
  /\ temperatureHistory[3].temperature # DefaultZone("zone-a").temperature
  /\ temperatureHistory[7].timestamp > temperatureHistory[1].timestamp
  /\ temperatureHistory[7].temperature = zones[temperatureHistory[7].zoneId].temperature

\* the response of GET /api/zones holds one view per zone, whose hotVotes and
\* coldVotes are the zone's 10-minute recency counts at request time and whose
\* other fields are the stored zone's
ViewsMatch(response) ==
  /\ Len(response.body) = Cardinality(ZoneIds)
  /\ {response.body[i].id : i \in 1..Len(response.body)} = ZoneIds
  /\ \A i \in 1..Len(response.body) :
       LET view == response.body[i]
           zone == zones[view.id]
       IN  /\ view.hotVotes = WindowCount(view.id, "hot", Len(votes), now)
           /\ view.coldVotes = WindowCount(view.id, "cold", Len(votes), now)
           /\ view.name = zone.name
           /\ view.temperature = zone.temperature
           /\ view.activeVoters = zone.activeVoters
           /\ view.lastUpdated = zone.lastUpdated

\* C16 as stated: GET /api/zones returns one such view per zone, and after
\* the read every zone's stored hotVotes and coldVotes equal the zone's
\* recency counts.
C16_StoredCountsOverwritten ==
  [][res'.op = "zones" =>
       /\ ViewsMatch(res')
       /\ \A z \in ZoneIds :
            /\ zones'[z].hotVotes = WindowCount(z, "hot", Len(votes), now)
            /\ zones'[z].coldVotes = WindowCount(z, "cold", Len(votes), now)]_vars

\* C16 amended: GET /api/zones returns one such view per zone, and the read
\* leaves every stored zone, its hotVotes and coldVotes included, as it was.
C16_ZoneViews ==
  /\ [](res.op = "zones" => ViewsMatch(res))
  /\ [][res'.op = "zones" => zones' = zones]_vars

\* a view that counts one vote of its zone and leaves out an aged one, while
\* the stored zone still shows the seeded zero counts
C16_Witness ==
  /\ res.op = "zones"
  /\ Cardinality(ZoneVotes("zone-a", Len(votes))) = 2
  /\ res.body[2].id = "zone-a"
  /\ res.body[2].hotVotes + res.body[2].coldVotes = 1
  /\ zones["zone-a"].hotVotes = 0
  /\ zones["zone-a"].coldVotes = 0

\* the stored temperatures of the five zones, added up
TemperatureSum ==
  zones["standing"].temperature + zones["zone-a"].temperature
    + zones["zone-b"].temperature + zones["zone-c"].temperature
    + zones["recharge"].temperature

\* the recency counts of one vote type of the five zones, added up
WindowSum(voteType) ==
  WindowCount("standing", voteType, Len(votes), now)
    + WindowCount("zone-a", voteType, Len(votes), now)
    + WindowCount("zone-b", voteType, Len(votes), now)
    + WindowCount("zone-c", voteType, Len(votes), now)
    + WindowCount("recharge", voteType, Len(votes), now)

\* C17: GET /api/stats returns hotVotes and coldVotes equal to the sums over
\* the zones of their 10-minute recency counts, totalVotes equal to their sum
\* and to the number of ledger events not older than 10 minutes, zones equal
\* to the number of zones, and averageTemperature equal to the mean of the
\* stored temperatures rounded to one decimal, halves upwards.
C17_StatsAggregate ==
  res.op = "stats" =>
    /\ res.stats.hotVotes = WindowSum("hot")
    /\ res.stats.coldVotes = WindowSum("cold")
    /\ res.stats.totalVotes = res.stats.hotVotes + res.stats.coldVotes
    /\ res.stats.totalVotes =
         Cardinality({i \in 1..Len(votes) : votes[i].timestamp >= now - 10})
    /\ res.stats.zones = Cardinality(DOMAIN zones)
    /\ (10 * res.stats.averageTemperature) - 5 <= 2 * TemperatureSum
    /\ 2 * TemperatureSum < (10 * res.stats.averageTemperature) + 5

\* statistics answered when one of two votes has aged out, a vote has moved
\* two zones' temperatures and the mean is not a whole number of tenths
C17_Witness ==
  /\ res.op = "stats"
  /\ Len(votes) = 2
  /\ votes[1].zoneId # votes[2].zoneId
  /\ res.stats.totalVotes = 1
  /\ TemperatureSum % 5 # 0
  /\ \A i \in 1..2 :
       zones[votes[i].zoneId].temperature # DefaultZone(votes[i].zoneId).temperature

\* C18: connectedUsers of GET /api/stats is the number of connection records
\* the storage holds at that moment, records older than 5 minutes that no
\* sweep has removed yet included, and answering it leaves every record, and
\* the count of UUIDs drawn, as they were.
C18_CountLiveUnfiltered ==
  /\ [](res.op = "stats" => res.stats.connectedUsers = Len(activeConnections))
  /\ [][res'.op = "stats" => UNCHANGED <<activeConnections, uuids, nextCleanup>>]_vars

\* statistics that count two records, one of them last seen more than 5
\* minutes ago and not swept because the cleanup callback is late
C18_Witness ==
  /\ res.op = "stats"
  /\ res.stats.connectedUsers = 2
  /\ now >= nextCleanup
  /\ \E i \in 1..Len(activeConnections) : activeConnections[i].lastSeen < now - 5
  /\ \E i \in 1..Len(activeConnections) : activeConnections[i].lastSeen >= now - 5

\* a zone-related request is served in this step: GET /api/zones,
\* GET /api/zones/:id and the vote history are answered in it, an accepted
\* POST /api/vote starts in it
ZoneRequest ==
  \/ res'.op \in {"zones", "zone", "history"}
  \/ \E r \in Slots : req[r].pc = "idle" /\ req'[r].pc = "create"

\* C19: after every zone-related request the connection tracker holds a
\* record whose lastSeen is the time of the request.
C19_ZoneRequestsTouch ==
  [][ZoneRequest =>
       \E i \in 1..Len(activeConnections') : activeConnections'[i].lastSeen = now]_vars

\* C20: the temperature a vote writes is determined by the hot and cold
\* counts of the zone inside the 10 minutes before the count, whatever the
\* zone's temperature was and whatever older votes the ledger holds; for
\* equal counts it is exactly the base value 22.0, which is also the model's
\* value for no votes at all.
C20_NoMemory ==
  /\ [](NewTemperature(NoCounts) = 220)
  /\ [][\A r \in Slots :
          Writes(r) =>
            LET z == req[r].zoneId
                hot == WindowCount(z, "hot", req[r].countedLen, req[r].countedAt)
                cold == WindowCount(z, "cold", req[r].countedLen, req[r].countedAt)
            IN  /\ zones'[z].temperature - 220 = hot - cold
                /\ hot = cold => zones'[z].temperature = 220]_vars

\* a zone with an aged hot vote, at 22.1 after a second hot vote, has just been
\* written back to exactly 22.0 by a cold vote: one hot and one cold in the window
C20_Witness ==
  /\ Len(votes) = 3
  /\ \A i \in 1..3 : votes[i].zoneId = "zone-a"
  /\ req["r1"].pc = "sample"
  /\ votes[1].voteType = "hot"
  /\ votes[1].timestamp < req["r1"].countedAt - 10
  /\ req["r1"].recentVotes = [hotVotes |-> 1, coldVotes |-> 1]
  /\ Len(temperatureHistory) = 2
  /\ temperatureHistory[2].temperature = 221
  /\ zones["zone-a"].temperature = 220

\* C21: a vote history request without an hours parameter, or with hours=0,
\* is answered with 36 entries, the default of 6 hours; with hours=1 it is
\* answered with 6 entries and with hours=2 with 12, six per hour asked for.
C21_DefaultHours ==
  res.op = "history" =>
    /\ res.query \in {Undefined, <<"0">>} => (res.hours = 6 /\ Len(res.body) = 36)
    /\ res.query = <<"1">> => (res.hours = 1 /\ Len(res.body) = 6)
    /\ res.query = <<"2">> => (res.hours = 2 /\ Len(res.body) = 12)

\* a request without the parameter, answered for a zone that has votes with
\* 36 entries whose counts add up to the zone's votes
C21_Witness ==
  /\ res.op = "history"
  /\ res.query = Undefined
  /\ Len(res.body) = 36
  /\ ZoneVotes(res.zoneId, Len(votes)) # {}
  /\ \E j \in 1..36 : res.body[j].hotVotes + res.body[j].coldVotes > 0

\* C22: the initial state holds exactly the five zones standing 22.3,
\* zone-a 21.8, zone-b 22.7, zone-c 21.5 and recharge 23.1, an empty ledger,
\* no samples and no connections; no step adds or removes a zone or changes
\* a zone's id or name, and every zone is stored under its id.
C22_SeedZonesFixed ==
  /\ /\ DOMAIN zones = {"standing", "zone-a", "zone-b", "zone-c", "recharge"}
     /\ zones["standing"].temperature = 223
     /\ zones["zone-a"].temperature = 218
     /\ zones["zone-b"].temperature = 227
     /\ zones["zone-c"].temperature = 215
     /\ zones["recharge"].temperature = 231
     /\ votes = <<>>
     /\ temperatureHistory = <<>>
     /\ activeConnections = <<>>
  /\ [](\A z \in DOMAIN zones : zones[z].id = z)
  /\ [][/\ DOMAIN zones' = DOMAIN zones
        /\ \A z \in DOMAIN zones :
             zones'[z].id = zones[z].id /\ zones'[z].name = zones[z].name]_vars

\* after two accepted votes that moved two zones' temperatures, a snapshot
\* tick and a sweep, the storage still holds the five zones under their names
C22_Witness ==
  /\ accepted = 2
  /\ InFlight = {}
  /\ ticks > 0
  /\ nextCleanup > StartTime + CleanupPeriod
  /\ Cardinality({z \in DOMAIN zones :
                    zones[z].temperature # DefaultZone(z).temperature}) = 2
  /\ Cardinality(DOMAIN zones) = 5
  /\ \A z \in DOMAIN zones : zones[z].name = DefaultZone(z).name

\* handler r takes a step
Steps(r) == req'[r] # req[r]

\* the zone handler r votes for, before and after its first step
VotedZone(r) == IF req[r].pc = "idle" THEN req'[r].zoneId ELSE req[r].zoneId

\* the events of zone z in a ledger, in order
EventsOf(vs, z) == FilterSeq(vs, {v \in {vs[i] : i \in 1..Len(vs)} : v.zoneId = z})

\* C23: every step of a handler voting for zone A, however it interleaves
\* with a handler voting for another zone, leaves every other zone B as it
\* was: B's stored zone (temperature and lastUpdated included), B's ledger
\* events, B's 10-minute recency counts and B's vote history series.
C23_OtherZonesUntouched ==
  [][\A r \in Slots :
       Steps(r) =>
         \A b \in ZoneIds \ {VotedZone(r)} :
           /\ zones'[b] = zones[b]
           /\ EventsOf(votes', b) = EventsOf(votes, b)
           /\ GetRecentVoteCounts(votes', b, 10, now) = GetRecentVoteCounts(votes, b, 10, now)
           /\ VoteHistory(votes', b, 1, now) = VoteHistory(votes, b, 1, now)]_vars

\* two handlers, one per zone, have interleaved: the first has written its
\* zone while the second, which counted only its own vote, is about to write,
\* its zone still at the seeded temperature
C23_Witness ==
  /\ req["r1"].pc = "sample"
  /\ req["r2"].pc = "write"
  /\ req["r1"].zoneId # req["r2"].zoneId
  /\ req["r1"].countedLen = 2
  /\ req["r2"].countedLen = 2
  /\ req["r2"].recentVotes.hotVotes + req["r2"].recentVotes.coldVotes = 1
  /\ zones[req["r1"].zoneId].temperature = req["r1"].newTemperature
  /\ zones[req["r2"].zoneId].temperature = DefaultZone(req["r2"].zoneId).temperature
  /\ zones[req["r2"].zoneId].lastUpdated = StartTime

Storage == [zones |-> zones, votes |-> votes]

\* POST /api/vote run from createVote to updateZoneTemperature without another
\* request in between: the zones and the ledger after it
RunVote(s, body, t) ==
  LET vs == CreateVote(s.votes, body, t)
      recentVotes == GetRecentVoteCounts(vs, body.zoneId, VoteWindowMinutes, t)
  IN  [zones |-> UpdateZoneTemperature(s.zones, body.zoneId,
                                       NewTemperature(recentVotes), t),
       votes |-> vs]

\* the bodies POST /api/vote accepts
AcceptedBodies == {body \in VoteBodies : ValidVote(body) /\ HasZone(zones, body.zoneId)}

\* two ledgers hold the same events, each as many times
SameBag(a, b) ==
  /\ Len(a) = Len(b)
  /\ \A e \in {a[i] : i \in 1..Len(a)} \cup {b[i] : i \in 1..Len(b)} :
       Cardinality({i \in 1..Len(a) : a[i] = e}) = Cardinality({i \in 1..Len(b) : b[i] = e})

\* two storages agree on the ledger's contents, on every zone's recency
\* counts and vote history series, and on the stored zones
SameOutcome(p, q) ==
  /\ SameBag(p.votes, q.votes)
  /\ p.zones = q.zones
  /\ \A z \in ZoneIds :
       /\ GetRecentVoteCounts(p.votes, z, 10, now) = GetRecentVoteCounts(q.votes, z, 10, now)
       /\ VoteHistory(p.votes, z, 1, now) = VoteHistory(q.votes, z, 1, now)

\* the last two votes of the ledger were both accepted at the current instant
LastTwoNow ==
  /\ Len(votes) >= 2
  /\ votes[Len(votes)].timestamp = now
  /\ votes[Len(votes) - 1].timestamp = now

\* C25: from every state between requests, two accepted votes run one after
\* the other at the same clock value give, in either order, the same ledger
\* contents, recency counts, vote history series and stored zones; and when
\* the server has just handled two votes one after the other at the current
\* instant, its storage is what either order gives from the ledger before
\* them.
C25_AppendsCommute ==
  InFlight = {} =>
    /\ \A b1, b2 \in AcceptedBodies :
         SameOutcome(RunVote(RunVote(Storage, b1, now), b2, now),
                     RunVote(RunVote(Storage, b2, now), b1, now))
    /\ LastTwoNow =>
         LET before == [zones |-> zones, votes |-> SubSeq(votes, 1, Len(votes) - 2)]
             v1 == votes[Len(votes) - 1]
             v2 == votes[Len(votes)]
         IN  /\ RunVote(RunVote(before, v1, now), v2, now) = Storage
             /\ SameOutcome(RunVote(RunVote(before, v2, now), v1, now), Storage)

\* after an earlier vote, a hot and then a cold vote for one zone have been
\* handled at the same instant and left the zone at 22.0 plus the earlier vote
C25_Witness ==
  /\ InFlight = {}
  /\ Len(votes) = 3
  /\ LastTwoNow
  /\ votes[1].timestamp < now
  /\ votes[2].zoneId = votes[3].zoneId
  /\ votes[2].voteType = "hot"
  /\ votes[3].voteType = "cold"
  /\ zones[votes[3].zoneId].lastUpdated = now
  /\ zones[votes[3].zoneId].temperature \in {219, 220, 221}

\* the votes of zone z in the ledger that had not aged out at instant `at`
FreshVotes(z, at) == {i \in ZoneVotes(z, Len(votes)) : votes[i].timestamp >= at - 10}

\* the response of an accepted vote counts at least that vote
CountsOwnVote ==
  (res.op = "vote" /\ res.status = 200) =>
    /\ res.body.hotVotes + res.body.coldVotes >= 1
    /\ res.voteType = "hot" => res.body.hotVotes >= 1
    /\ res.voteType = "cold" => res.body.coldVotes >= 1

\* a handler whose vote is the zone's only vote not aged out when it counted
\* writes 22.1 for a hot vote and 21.9 for a cold one
LoneVoteMoves ==
  \A r \in Slots :
    (Writes(r) /\ Cardinality(FreshVotes(req[r].zoneId, req[r].countedAt)) = 1) =>
      /\ zones'[req[r].zoneId].temperature # 220
      /\ req[r].voteType = "hot" => zones'[req[r].zoneId].temperature = 221
      /\ req[r].voteType = "cold" => zones'[req[r].zoneId].temperature = 219

\* C26: the vote is appended before the recency counts are read, so every
\* response of an accepted vote has hotVotes + coldVotes >= 1 and counts the
\* vote's own type at least once, and a vote on a zone whose earlier votes have
\* all aged out sets the temperature to 22.1 (hot) or 21.9 (cold), never 22.0.
C26_OwnVoteCounted == []CountsOwnVote /\ [][LoneVoteMoves]_vars

\* a vote answered for a zone whose only earlier vote had aged out, with the
\* temperature a tenth off 22.0
C26_Witness ==
  /\ res.op = "vote"
  /\ res.status = 200
  /\ Len(votes) = 2
  /\ votes[1].zoneId = res.zoneId
  /\ votes[2].zoneId = res.zoneId
  /\ votes[2].timestamp - votes[1].timestamp > 10
  /\ res.body.hotVotes + res.body.coldVotes = 1
  /\ res.body.temperature \in {219, 221}

\* C27: the stored hotVotes, coldVotes and activeVoters of every zone are 0 in
\* every reachable state, and GET /api/zones/:id answers with the stored zone,
\* so with hotVotes = 0 and coldVotes = 0 whatever the ledger holds for it.
C27_StoredCountsZero ==
  /\ \A z \in DOMAIN zones :
       /\ zones[z].hotVotes = 0
       /\ zones[z].coldVotes = 0
       /\ zones[z].activeVoters = 0
  /\ (res.op = "zone" /\ res.status = 200) =>
       /\ res.body = zones[res.body.id]
       /\ res.body.hotVotes = 0
       /\ res.body.coldVotes = 0

\* the zone is answered while the ledger holds two votes for it inside the
\* window and its temperature has been recomputed from them
C27_Witness ==
  /\ res.op = "zone"
  /\ res.status = 200
  /\ InFlight = {}
  /\ Cardinality(FreshVotes(res.body.id, now)) = 2
  /\ \A i \in FreshVotes(res.body.id, now) : votes[i].voteType = "hot"
  /\ res.body.temperature = 222

\* the zone's votes the answered history request fetched: those not older
\* than hours * 60 minutes
Fetched ==
  {i \in ZoneVotes(res.zoneId, Len(votes)) : votes[i].timestamp >= now - (res.hours * 60)}

\* the fetched votes that are not older than the first entry of the series
OnGrid == {i \in Fetched : votes[i].timestamp >= DateOf(res.body[1].timestamp)}

\* the entries of the series whose 10 minutes hold vote i
EntriesCounting(i) ==
  {j \in 1..Len(res.body) :
     /\ DateOf(res.body[j].timestamp) <= votes[i].timestamp
     /\ votes[i].timestamp < DateOf(res.body[j].timestamp) + 10}

\* hotVotes + coldVotes summed over the series
SeriesTotal ==
  SumSeq([j \in 1..Len(res.body) |-> res.body[j].hotVotes + res.body[j].coldVotes])

====
